---- MODULE Spec2Model ----
(***************************************************************************)
(* Cloud provider sentiment analyzer: the extraction loop of               *)
(* cloud_sentiment_analyzer.py and the comparative post-processing of      *)
(* comparative_sentiment.py.                                               *)
(*                                                                         *)
(* Texts are sequences of one-character strings.  Python floats are        *)
(* modelled as exact rationals [n, d] in lowest terms (d > 0); ordered     *)
(* Python dicts are sequences of <<key, value>> pairs in insertion order.  *)
(***************************************************************************)
EXTENDS Integers, Sequences, FiniteSets, TLC

VARIABLES
    results,                    \* the opinion store: provider -> aspect -> list of records
    pc,                         \* position of the driver script
    sub_idx,                    \* index of the subreddit being processed
    sub_posts,                  \* submissions fetched from the current subreddit
    cur,                        \* the text being scanned: [text, kind, url]
    pos,                        \* <<provider index, aspect index, sentence index>> of the scan
    pending,                    \* comment bodies of the current submission still to scan
    total_sentences_analyzed,   \* counter of classified sentences (the other
                                \* counters of lines 106-111 are only printed)
    comparative_results,        \* what postprocess_sentiment_results returned
    call,                       \* arguments of a direct extract_relevant_sentences call
    relevant,                   \* its return value
    result,                     \* what bert_pipeline answered for the sentence just classified
    appended                    \* <<provider, area, record>> of each append made for the text
                                \* being scanned, in order

vars == <<results, pc, sub_idx, sub_posts, cur, pos, pending,
          total_sentences_analyzed, comparative_results, call, relevant, result, appended>>

None == "None"

\* None where a text is expected: a value that no sequence of characters equals
NoText == <<"None">>

\* no sentence was classified yet for the text at hand
NoAnswer == [label |-> None, score |-> None]

-----------------------------------------------------------------------------
(* Sequences and ordered dicts *)

Range(s) == {s[i] : i \in 1..Len(s)}

Reverse(s) == [i \in 1..Len(s) |-> s[Len(s) + 1 - i]]

Take(s, n) == SubSeq(s, 1, IF n < Len(s) THEN n ELSE Len(s))

Keys(d) == [i \in 1..Len(d) |-> d[i][1]]

Get(d, k) == (CHOOSE i \in 1..Len(d) : d[i][1] = k)

Lookup(d, k) == d[Get(d, k)][2]

RECURSIVE SumSeq(_)
SumSeq(s) == IF s = <<>> THEN 0 ELSE Head(s) + SumSeq(Tail(s))

RECURSIVE Concat(_)
Concat(ss) == IF ss = <<>> THEN <<>> ELSE Head(ss) \o Concat(Tail(ss))

-----------------------------------------------------------------------------
(* Exact rationals standing for Python floats *)

Abs(x) == IF x < 0 THEN -x ELSE x

RECURSIVE GCD(_, _)
GCD(a, b) == IF b = 0 THEN a ELSE GCD(b, a % b)

Rat(n, d) == LET g == GCD(Abs(n), d) IN [n |-> n \div g, d |-> d \div g]

Zero == [n |-> 0, d |-> 1]

One == [n |-> 1, d |-> 1]

RAdd(a, b) == Rat(a.n * b.d + b.n * a.d, a.d * b.d)

RSub(a, b) == Rat(a.n * b.d - b.n * a.d, a.d * b.d)

RMul(a, b) == Rat(a.n * b.n, a.d * b.d)

RLess(a, b) == a.n * b.d < b.n * a.d

RLeq(a, b) == a.n * b.d <= b.n * a.d

RMin(a, b) == IF RLess(b, a) THEN b ELSE a

\* the sum of a list, halving it
RECURSIVE RSum(_)
RSum(s) ==
    IF s = <<>> THEN Zero
    ELSE IF Len(s) = 1 THEN s[1]
    ELSE LET h == Len(s) \div 2
         IN RAdd(RSum(SubSeq(s, 1, h)), RSum(SubSeq(s, h + 1, Len(s))))

\* statistics.mean of a non-empty list
mean(s) == RMul(RSum(s), Rat(1, Len(s)))

-----------------------------------------------------------------------------
(* Characters: what the regular expression engine sees *)

ToLower == [A |-> "a", B |-> "b", C |-> "c", D |-> "d", E |-> "e", F |-> "f",
            G |-> "g", H |-> "h", I |-> "i", J |-> "j", K |-> "k", L |-> "l",
            M |-> "m", N |-> "n", O |-> "o", P |-> "p", Q |-> "q", R |-> "r",
            S |-> "s", T |-> "t", U |-> "u", V |-> "v", W |-> "w", X |-> "x",
            Y |-> "y", Z |-> "z"]

LowerLetters == Range([i \in 1..26 |-> ToLower[<<"A", "B", "C", "D", "E", "F", "G", "H",
    "I", "J", "K", "L", "M", "N", "O", "P", "Q", "R", "S", "T", "U", "V", "W", "X",
    "Y", "Z">>[i]]])

Digits == {"0", "1", "2", "3", "4", "5", "6", "7", "8", "9"}

\* case folding of re.IGNORECASE
Lower(c) == IF c \in DOMAIN ToLower THEN ToLower[c] ELSE c

\* the regular expression class \w
IsWordChar(c) == Lower(c) \in LowerLetters \cup Digits \cup {"_"}

\* whether text[k] exists and is a word character
WordAt(text, k) == k >= 1 /\ k <= Len(text) /\ IsWordChar(text[k])

\* the assertion \b between text[k] and text[k+1] (k = 0 and k = Len(text) are the ends)
Boundary(text, k) == WordAt(text, k) # WordAt(text, k + 1)

\* the pattern \b word \b matching with word starting at text[i]
MatchesAt(word, text, i) ==
    /\ i >= 1
    /\ i + Len(word) - 1 <= Len(text)
    /\ \A j \in 1..Len(word) : Lower(text[i + j - 1]) = Lower(word[j])
    /\ Boundary(text, i - 1)
    /\ Boundary(text, i + Len(word) - 1)

\* the same search without the two \b assertions: a plain substring search
contains_substring(word, text) ==
    \E i \in 1..(Len(text) - Len(word) + 1) :
        \A j \in 1..Len(word) : Lower(text[i + j - 1]) = Lower(word[j])

contains_whole_word(word, text) ==
    \E i \in 1..(Len(text) - Len(word) + 1) : MatchesAt(word, text, i)

-----------------------------------------------------------------------------
(* nltk.sent_tokenize: a sentence ends at a period followed by whitespace;  *)
(* the whitespace between sentences and at the end of the text is dropped,  *)
(* and so is an empty sentence.                                             *)

IsSpace(c) == c = " "

RECURSIVE RStrip(_)
RStrip(s) == IF s # <<>> /\ IsSpace(s[Len(s)]) THEN RStrip(SubSeq(s, 1, Len(s) - 1)) ELSE s

RECURSIVE LStrip(_)
LStrip(s) == IF s # <<>> /\ IsSpace(s[1]) THEN LStrip(Tail(s)) ELSE s

\* index of the first period that is followed by whitespace, 0 when there is none
FirstBreak(text) ==
    LET breaks == {i \in 1..(Len(text) - 1) : text[i] = "." /\ IsSpace(text[i + 1])}
    IN IF breaks = {} THEN 0 ELSE CHOOSE i \in breaks : \A j \in breaks : i <= j

RECURSIVE SplitSentences(_)
SplitSentences(text) ==
    LET b == FirstBreak(text)
    IN IF b = 0
       THEN (IF RStrip(text) = <<>> THEN <<>> ELSE <<RStrip(text)>>)
       ELSE <<SubSeq(text, 1, b)>> \o SplitSentences(LStrip(SubSeq(text, b + 1, Len(text))))

sent_tokenize(text) == SplitSentences(text)

-----------------------------------------------------------------------------
(* Relevance extractor *)

extract_relevant_sentences(text, provider, keywords) ==
    LET sentences == sent_tokenize(IF text = NoText THEN <<>> ELSE text)
        Keep(sent) == /\ contains_whole_word(provider, sent)
                      /\ \E k \in 1..Len(keywords) : contains_whole_word(keywords[k], sent)
    IN SelectSeq(sentences, Keep)

-----------------------------------------------------------------------------
(* sorted(items, key=..., reverse=True): the list is reversed, sorted         *)
(* ascending by a stable insertion of each element after its equals, and      *)
(* reversed again.  keys[i] is the key of items[i].                           *)

\* the indices 1..n of keys in ascending key order, equal keys in index order
RECURSIVE StableAscending(_, _)
StableAscending(keys, n) ==
    IF n = 0 THEN <<>>
    ELSE LET perm == StableAscending(keys, n - 1)
             c == Cardinality({i \in 1..Len(perm) : RLeq(keys[perm[i]], keys[n])})
         IN SubSeq(perm, 1, c) \o <<n>> \o SubSeq(perm, c + 1, Len(perm))

\* ascending sort, then one reversal: equal keys come out in reverse input order
sorted_then_reversed(items, keys) ==
    LET perm == StableAscending(keys, Len(keys))
    IN Reverse([i \in 1..Len(items) |-> items[perm[i]]])

\* reverse=True forgotten: ascending order
sorted_ascending(items, keys) ==
    LET perm == StableAscending(keys, Len(keys))
    IN [i \in 1..Len(items) |-> items[perm[i]]]

sorted_reverse(items, keys) ==
    LET r == Reverse(items)
        perm == StableAscending(Reverse(keys), Len(keys))
    IN Reverse([i \in 1..Len(r) |-> r[perm[i]]])

-----------------------------------------------------------------------------
(* comparative_sentiment.py *)

CountOf(opinions, label) == Cardinality({i \in 1..Len(opinions) : opinions[i].sentiment = label})

\* the score taken from the counts, without dividing by the total
provider_score_counts(opinions) ==
    IF opinions = <<>>
    THEN [sentiment_score |-> Zero, positive_ratio |-> Zero, negative_ratio |-> Zero,
          total_opinions |-> 0, avg_confidence |-> Zero]
    ELSE LET total == Len(opinions)
             positive == CountOf(opinions, "Positive")
             negative == CountOf(opinions, "Negative")
         IN [sentiment_score |-> Rat(positive - negative, 1),
             positive_ratio |-> Rat(positive, total),
             negative_ratio |-> Rat(negative, total),
             total_opinions |-> total,
             avg_confidence |-> mean([i \in 1..total |-> opinions[i].confidence])]

\* every record that is not Negative counted as positive
provider_score_lenient(opinions) ==
    IF opinions = <<>>
    THEN [sentiment_score |-> Zero, positive_ratio |-> Zero, negative_ratio |-> Zero,
          total_opinions |-> 0, avg_confidence |-> Zero]
    ELSE LET total == Len(opinions)
             positive == total - CountOf(opinions, "Negative")
             negative == CountOf(opinions, "Negative")
         IN [sentiment_score |-> RSub(Rat(positive, total), Rat(negative, total)),
             positive_ratio |-> Rat(positive, total),
             negative_ratio |-> Rat(negative, total),
             total_opinions |-> total,
             avg_confidence |-> mean([i \in 1..total |-> opinions[i].confidence])]

\* the score of one (provider, aspect) bucket
provider_score(opinions) ==
    IF opinions = <<>>
    THEN [sentiment_score |-> Zero, positive_ratio |-> Zero, negative_ratio |-> Zero,
          total_opinions |-> 0, avg_confidence |-> Zero]
    ELSE LET total == Len(opinions)
             positive == CountOf(opinions, "Positive")
             negative == CountOf(opinions, "Negative")
             pos_ratio == IF total > 0 THEN Rat(positive, total) ELSE Zero
             neg_ratio == IF total > 0 THEN Rat(negative, total) ELSE Zero
         IN [sentiment_score |-> RSub(pos_ratio, neg_ratio),
             positive_ratio |-> pos_ratio,
             negative_ratio |-> neg_ratio,
             total_opinions |-> total,
             avg_confidence |-> mean([i \in 1..total |-> opinions[i].confidence])]

\* ranked_providers in ascending order of score
rank_providers_ascending(provider_scores) ==
    sorted_ascending(provider_scores,
                     [i \in 1..Len(provider_scores) |-> provider_scores[i][2].sentiment_score])

\* ranked_providers sorted ascending and then reversed
rank_providers_ties_reversed(provider_scores) ==
    sorted_then_reversed(provider_scores,
                         [i \in 1..Len(provider_scores) |-> provider_scores[i][2].sentiment_score])

\* ranked_providers of one aspect
rank_providers(provider_scores) ==
    sorted_reverse(provider_scores,
                   [i \in 1..Len(provider_scores) |-> provider_scores[i][2].sentiment_score])

calculate_provider_rankings(res) ==
    IF res = <<>> THEN <<>>
    ELSE LET first_provider == res[1][1]
             aspects == Keys(Lookup(res, first_provider))
             Ranking(aspect) ==
                 LET provider_scores ==
                         [i \in 1..Len(res) |->
                             <<res[i][1], provider_score(Lookup(res[i][2], aspect))>>]
                     ranked_providers == rank_providers(provider_scores)
                 IN [provider_scores |-> provider_scores,
                     ranked_providers |-> ranked_providers,
                     best_provider |-> IF ranked_providers # <<>>
                                       THEN ranked_providers[1][1] ELSE None,
                     worst_provider |-> IF ranked_providers # <<>>
                                        THEN ranked_providers[Len(ranked_providers)][1]
                                        ELSE None]
         IN [k \in 1..Len(aspects) |-> <<aspects[k], Ranking(aspects[k])>>]

\* the divisor of the confidence dampener
DampenDivisor == 100

\* the mean of the aspect scores, not dampened
undampened_score(aspect_scores, total_opinions) == mean(aspect_scores)

weighted_score(aspect_scores, total_opinions) ==
    RMul(mean(aspect_scores), RMin(One, Rat(total_opinions, DampenDivisor)))

calculate_overall_provider_rankings(aspect_rankings) ==
    IF aspect_rankings = <<>> THEN <<>>
    ELSE LET first_aspect == aspect_rankings[1][2]
             providers == Keys(first_aspect.provider_scores)
             Data(k, provider) == Lookup(aspect_rankings[k][2].provider_scores, provider)
             Overall(provider) ==
                 LET aspect_scores ==
                         [k \in 1..Len(aspect_rankings) |-> Data(k, provider).sentiment_score]
                     total_opinions ==
                         SumSeq([k \in 1..Len(aspect_rankings) |->
                                    Data(k, provider).total_opinions])
                 IN weighted_score(aspect_scores, total_opinions)
             overall_scores == [i \in 1..Len(providers) |-> <<providers[i], Overall(providers[i])>>]
         IN sorted_reverse(overall_scores,
                           [i \in 1..Len(overall_scores) |-> overall_scores[i][2]])

-----------------------------------------------------------------------------
(* Insight statements.  A statement is kept as the fields its text is       *)
(* formatted from: line 152 prints the aspect, the two providers and their  *)
(* positive ratios, line 165 the aspect, line 134 a fixed sentence.         *)

NoDataInsight ==
    [kind |-> "no_data", aspect |-> None, best_provider |-> None, best_ratio |-> None,
     worst_provider |-> None, worst_ratio |-> None]

LeadsInsight(aspect, best, worst) ==
    [kind |-> "leads", aspect |-> aspect,
     best_provider |-> best[1], best_ratio |-> best[2].positive_ratio,
     worst_provider |-> worst[1], worst_ratio |-> worst[2].positive_ratio]

ControversialInsight(aspect) ==
    [kind |-> "most_controversial", aspect |-> aspect, best_provider |-> None,
     best_ratio |-> None, worst_provider |-> None, worst_ratio |-> None]

\* the materiality threshold 0.1
InsightThreshold == Rat(1, 10)

\* a gap equal to the threshold counts as well
clear_winner_inclusive(score_diff) == RLeq(InsightThreshold, score_diff)

clear_winner(score_diff) == RLess(InsightThreshold, score_diff)

\* the square of statistics.stdev: the sample variance of two or more scores
variance(scores) ==
    LET m == mean(scores)
        sq == [i \in 1..Len(scores) |-> RMul(RSub(scores[i], m), RSub(scores[i], m))]
    IN RMul(RSum(sq), Rat(1, Len(scores) - 1))

\* max(items, key=lambda x: x[1]): the first item whose key no other exceeds
max_by_value(items) ==
    items[CHOOSE i \in 1..Len(items) :
            /\ \A j \in 1..Len(items) : RLeq(items[j][2], items[i][2])
            /\ \A j \in 1..(i - 1) : RLess(items[j][2], items[i][2])]

\* lines 137-154 for one aspect: at most one statement
aspect_insight(aspect, data) ==
    LET ranked == data.ranked_providers
    IN IF Len(ranked) < 2 THEN <<>>
       ELSE LET best == ranked[1]
                worst == ranked[Len(ranked)]
                score_diff == RSub(best[2].sentiment_score, worst[2].sentiment_score)
            IN IF clear_winner(score_diff)
               THEN <<LeadsInsight(aspect, best, worst)>>
               ELSE <<>>

generate_comparative_insights(aspect_rankings) ==
    IF aspect_rankings = <<>> THEN <<NoDataInsight>>
    ELSE LET n == Len(aspect_rankings)
             leads == Concat([k \in 1..n |->
                         aspect_insight(aspect_rankings[k][1], aspect_rankings[k][2])])
             Scores(k) == LET ranked == aspect_rankings[k][2].ranked_providers
                          IN [i \in 1..Len(ranked) |-> ranked[i][2].sentiment_score]
             \* ordered by stdev, which orders as its square does
             aspect_variances ==
                 Concat([k \in 1..n |->
                     IF Len(Scores(k)) > 1
                     THEN << <<aspect_rankings[k][1], variance(Scores(k))>> >>
                     ELSE <<>>])
         IN IF aspect_variances # <<>>
            THEN Append(leads, ControversialInsight(max_by_value(aspect_variances)[1]))
            ELSE leads

\* Is_Worst computed against a zero-based rank
summary_row_zero_based(aspect, ranked_providers, rank) ==
    LET provider == ranked_providers[rank][1]
        score_data == ranked_providers[rank][2]
    IN [Aspect |-> aspect, Provider |-> provider, Rank |-> rank,
        Sentiment_Score |-> score_data.sentiment_score,
        Positive_Ratio |-> score_data.positive_ratio,
        Negative_Ratio |-> score_data.negative_ratio,
        Total_Opinions |-> score_data.total_opinions,
        Avg_Confidence |-> score_data.avg_confidence,
        Is_Best |-> rank = 1,
        Is_Worst |-> rank = Len(ranked_providers) - 1]

summary_row(aspect, ranked_providers, rank) ==
    LET provider == ranked_providers[rank][1]
        score_data == ranked_providers[rank][2]
    IN [Aspect |-> aspect, Provider |-> provider, Rank |-> rank,
        Sentiment_Score |-> score_data.sentiment_score,
        Positive_Ratio |-> score_data.positive_ratio,
        Negative_Ratio |-> score_data.negative_ratio,
        Total_Opinions |-> score_data.total_opinions,
        Avg_Confidence |-> score_data.avg_confidence,
        Is_Best |-> rank = 1,
        Is_Worst |-> rank = Len(ranked_providers)]

\* the rows of the DataFrame, in order
create_comparative_summary_dataframe(aspect_rankings) ==
    Concat([k \in 1..Len(aspect_rankings) |->
        LET aspect == aspect_rankings[k][1]
            data == aspect_rankings[k][2]
        IN [rank \in 1..Len(data.ranked_providers) |->
               summary_row(aspect, data.ranked_providers, rank)]])

\* the DataFrame as its index and its columns, each column a provider -> score dict
create_provider_comparison_matrix(aspect_rankings) ==
    IF aspect_rankings = <<>> THEN [index |-> <<>>, columns |-> <<>>]
    ELSE LET first_aspect == aspect_rankings[1][2]
             providers == Keys(first_aspect.provider_scores)
             aspects == Keys(aspect_rankings)
             matrix_data ==
                 [k \in 1..Len(aspects) |->
                     <<aspects[k],
                       [i \in 1..Len(providers) |->
                           <<providers[i],
                             Lookup(Lookup(aspect_rankings, aspects[k]).provider_scores,
                                    providers[i]).sentiment_score>>]>>]
         IN [index |-> providers, columns |-> matrix_data]

postprocess_sentiment_results(res) ==
    LET aspect_rankings == calculate_provider_rankings(res)
    IN [aspect_rankings |-> aspect_rankings,
        overall_rankings |-> calculate_overall_provider_rankings(aspect_rankings),
        insights |-> generate_comparative_insights(aspect_rankings),
        comparative_summary |-> create_comparative_summary_dataframe(aspect_rankings),
        comparison_matrix |-> create_provider_comparison_matrix(aspect_rankings)]

-----------------------------------------------------------------------------
(* Configuration of the driver script (a part of each list of the source) *)

subreddits == <<"Cloud", "cloudcomputing">>

providers == <<"AWS", "Azure", "GCP">>

key_areas == << <<"cost", <<"price", "cost">> >>,
                <<"performance", <<"fast", "slow">> >> >>

\* the characters of each configured word
Spell == [AWS |-> <<"A", "W", "S">>,
          Azure |-> <<"A", "z", "u", "r", "e">>,
          GCP |-> <<"G", "C", "P">>,
          price |-> <<"p", "r", "i", "c", "e">>,
          cost |-> <<"c", "o", "s", "t">>,
          fast |-> <<"f", "a", "s", "t">>,
          slow |-> <<"s", "l", "o", "w">>,
          AI |-> <<"A", "I">>,
          m |-> <<"m">>]

SpellAll(words) == [k \in 1..Len(words) |-> Spell[words[k]]]

\* limit of the listing (100 in the source), the number of comments a listing
\* returns, and the number of relevant sentences of the corpus
num_posts == 2

MaxComments == 1

MaxSentences == 3

\* at most 25 comments of a submission are read
CommentCap == 25

\* what Reddit may return
Titles == {<<"A", "W", "S", " ", "p", "r", "i", "c", "e">>, <<"g", "c", "p", " ", "i", "s", " ", "f", "a", "s", "t", ".">>}

Selftexts == {NoText, <<"G", "C", "P", " ", "c", "o", "s", "t">>}

Bodies == {NoText, <<"A", "W", "S", " ", "s", "l", "o", "w", " ", "p", "r", "i", "c", "e">>}

RECURSIVE SeqsUpTo(_, _)
SeqsUpTo(S, n) ==
    IF n = 0 THEN {<<>>}
    ELSE LET shorter == SeqsUpTo(S, n - 1)
         IN shorter \cup {Append(q, x) : q \in shorter, x \in S}

OrEmpty(text) == IF text = NoText THEN <<>> ELSE text

-----------------------------------------------------------------------------
(* Sentiment classifier adapter *)

\* what bert_pipeline may answer for a sentence: its best label and score, or a failure
ClassifierOutcomes ==
    {[label |-> "5 stars", score |-> Rat(9, 10)], [label |-> "4 stars", score |-> Rat(9, 10)],
     [label |-> "3 stars", score |-> Rat(1, 2)],
     [label |-> "2 stars", score |-> Rat(4, 5)], [label |-> "1 star", score |-> Rat(4, 5)],
     [label |-> "raise", score |-> None]}

\* the adapter without its except clause for the label: a failure falls into the
\* last branch of the label mapping
get_bert_sentiment_unguarded(outcome) ==
    IF outcome.label \in {"POSITIVE", "4 stars", "5 stars", "LABEL_2"}
    THEN <<"Positive", outcome.score>>
    ELSE IF outcome.label \in {"NEGATIVE", "1 star", "2 stars", "LABEL_0"}
         THEN <<"Negative", outcome.score>>
    ELSE <<"Neutral", Zero>>

\* get_bert_sentiment on a sentence for which the pipeline answers outcome
get_bert_sentiment(outcome) ==
    IF outcome.label = "raise" THEN <<"Error", Zero>>
    ELSE IF outcome.label \in {"POSITIVE", "4 stars", "5 stars", "LABEL_2"}
         THEN <<"Positive", outcome.score>>
    ELSE IF outcome.label \in {"NEGATIVE", "1 star", "2 stars", "LABEL_0"}
         THEN <<"Negative", outcome.score>>
    ELSE <<"Neutral", outcome.score>>

-----------------------------------------------------------------------------
(* The opinion store *)

\* results = {provider: {area: [] for area in key_areas} for provider in providers}
EmptyStore(ps, areas) ==
    [i \in 1..Len(ps) |-> <<ps[i], [k \in 1..Len(areas) |-> <<areas[k], <<>> >>]>>]

Bucket(res, provider, area) == Lookup(Lookup(res, provider), area)

\* the record put in front of the list
list_prepend(bucket, record) == <<record>> \o bucket

\* list.append
list_append(bucket, record) == Append(bucket, record)

\* results[provider][area].append(record)
StoreAppend(res, provider, area, record) ==
    [i \in 1..Len(res) |->
        IF res[i][1] # provider THEN res[i]
        ELSE <<provider,
               [k \in 1..Len(res[i][2]) |->
                   IF res[i][2][k][1] # area THEN res[i][2][k]
                   ELSE <<area, list_append(res[i][2][k][2], record)>>]>>]

-----------------------------------------------------------------------------
(* The extraction loop *)

\* main_text = (submission.title or "") + " " + (submission.selftext or "")
MainText(title, selftext) == OrEmpty(title) \o <<" ">> \o OrEmpty(selftext)

\* the loops filing a sentence of a provider under the first aspect it fits only
work_first_area_only(text) ==
    Concat([pi \in 1..Len(providers) |->
        Concat([ai \in 1..Len(key_areas) |->
            LET rel == extract_relevant_sentences(text, Spell[providers[pi]],
                                                  SpellAll(key_areas[ai][2]))
                IsNew(sent) ==
                    \A aj \in 1..(ai - 1) :
                        sent \notin Range(extract_relevant_sentences(text, Spell[providers[pi]],
                                                                     SpellAll(key_areas[aj][2])))
                kept == SelectSeq(rel, IsNew)
            IN [si \in 1..Len(kept) |->
                   [provider |-> providers[pi], area |-> key_areas[ai][1], sent |-> kept[si]]]])])

\* the iterations of the three nested loops over one text, in order: for each
\* provider, for each area, for each relevant sentence
Work(text) ==
    Concat([pi \in 1..Len(providers) |->
        Concat([ai \in 1..Len(key_areas) |->
            LET rel == extract_relevant_sentences(text, Spell[providers[pi]],
                                                  SpellAll(key_areas[ai][2]))
            IN [si \in 1..Len(rel) |->
                   [provider |-> providers[pi], area |-> key_areas[ai][1], sent |-> rel[si]]]])])

\* Work of every text Reddit may return, computed once
AllTexts == {MainText(title, selftext) : title \in Titles, selftext \in Selftexts}
                \cup {OrEmpty(body) : body \in Bodies}

WorkOf == [text \in AllTexts |-> Work(text)]

Idle == [text |-> <<>>, kind |-> None, url |-> None]

Init ==
    /\ results = EmptyStore(providers, Keys(key_areas))
    /\ pc = "subreddit"
    /\ sub_idx = 1
    /\ sub_posts = 0
    /\ cur = Idle
    /\ pos = 0
    /\ pending = <<>>
    /\ total_sentences_analyzed = 0
    /\ comparative_results = None
    /\ call = None
    /\ relevant = None
    /\ result = NoAnswer
    /\ appended = <<>>

\* reddit.subreddit(name) and the start of its listing
OpenSubreddit ==
    /\ pc = "subreddit"
    /\ sub_idx <= Len(subreddits)
    /\ pc' = "listing"
    /\ sub_posts' = 0
    /\ UNCHANGED <<results, sub_idx, cur, pos, pending, total_sentences_analyzed,
                   comparative_results, call, relevant, result, appended>>

\* the listing raises: the outer except catches it and the next subreddit follows
SubredditFails ==
    /\ pc = "listing"
    /\ sub_idx' = sub_idx + 1
    /\ pc' = "subreddit"
    /\ UNCHANGED <<results, sub_posts, cur, pos, pending, total_sentences_analyzed,
                   comparative_results, call, relevant, result, appended>>

\* the listing is exhausted: the next subreddit follows
ListingEnds ==
    /\ pc = "listing"
    /\ sub_idx' = sub_idx + 1
    /\ pc' = "subreddit"
    /\ UNCHANGED <<results, sub_posts, cur, pos, pending, total_sentences_analyzed,
                   comparative_results, call, relevant, result, appended>>

\* the listing yields a submission, whose main text is scanned first
FetchSubmission(title, selftext) ==
    LET text == MainText(title, selftext)
    IN /\ pc = "listing"
       /\ sub_posts < num_posts
       /\ total_sentences_analyzed + Len(WorkOf[text]) <= MaxSentences
       /\ sub_posts' = sub_posts + 1
       /\ cur' = [text |-> text, kind |-> "Post", url |-> <<subreddits[sub_idx], sub_posts + 1>>]
       /\ pending' = <<>>
       /\ appended' = <<>>
       /\ IF WorkOf[text] = <<>>
          THEN pc' = "comments" /\ pos' = 0
          ELSE pc' = "scan" /\ pos' = 1
       /\ UNCHANGED <<results, sub_idx, total_sentences_analyzed, comparative_results,
                      call, relevant, result>>

\* one iteration of the innermost loop: classify the sentence and append its record
AppendOpinion(outcome) ==
    /\ pc = "scan"
    /\ LET item == WorkOf[cur.text][pos]
           answer == get_bert_sentiment(outcome)
           record == [sentence |-> item.sent,
                      sentiment |-> answer[1],
                      confidence |-> answer[2],
                      source |-> <<subreddits[sub_idx], cur.kind>>,
                      url |-> cur.url,
                      provider |-> item.provider,
                      aspect |-> item.area]
       IN /\ results' = StoreAppend(results, item.provider, item.area, record)
          /\ appended' = Append(appended, <<item.provider, item.area, record>>)
    /\ result' = outcome
    /\ total_sentences_analyzed' = total_sentences_analyzed + 1
    /\ IF pos < Len(WorkOf[cur.text])
       THEN pos' = pos + 1 /\ pc' = "scan"
       ELSE pos' = 0 /\ pc' = (IF cur.kind = "Post" THEN "comments" ELSE "comment_loop")
    /\ UNCHANGED <<sub_idx, sub_posts, cur, pending, comparative_results, call, relevant>>

\* replace_more or the comment listing raises: the inner except catches it and the listing goes on
CommentsFail ==
    /\ pc = "comments"
    /\ pc' = "listing"
    /\ result' = NoAnswer
    /\ UNCHANGED <<results, sub_idx, sub_posts, cur, pos, pending,
                   total_sentences_analyzed, comparative_results, call, relevant, appended>>

\* submission.comments.list(), cut after CommentCap comments
LoadComments(bodies) ==
    /\ pc = "comments"
    /\ total_sentences_analyzed
         + SumSeq([i \in 1..Len(bodies) |-> Len(WorkOf[OrEmpty(bodies[i])])]) <= MaxSentences
    /\ pending' = Take(bodies, CommentCap)
    /\ pc' = "comment_loop"
    /\ result' = NoAnswer
    /\ UNCHANGED <<results, sub_idx, sub_posts, cur, pos, total_sentences_analyzed,
                   comparative_results, call, relevant, appended>>

\* the next comment of the submission, or back to the listing after the last one
NextComment ==
    /\ pc = "comment_loop"
    /\ IF pending = <<>>
       THEN pc' = "listing" /\ UNCHANGED <<cur, pos, pending, appended>>
       ELSE LET body == OrEmpty(Head(pending))
            IN /\ cur' = [cur EXCEPT !.text = body, !.kind = "Comment"]
               /\ pending' = Tail(pending)
               /\ appended' = <<>>
               /\ IF WorkOf[body] = <<>>
                  THEN pc' = "comment_loop" /\ pos' = 0
                  ELSE pc' = "scan" /\ pos' = 1
    /\ result' = NoAnswer
    /\ UNCHANGED <<results, sub_idx, sub_posts, total_sentences_analyzed,
                   comparative_results, call, relevant>>

\* the last subreddit is done: the reports and exports read the store
FinishExtraction ==
    /\ pc = "subreddit"
    /\ sub_idx > Len(subreddits)
    /\ pc' = "rank"
    /\ UNCHANGED <<results, sub_idx, sub_posts, cur, pos, pending,
                   total_sentences_analyzed, comparative_results,
                   call, relevant, result, appended>>

\* comparative_results = postprocess_sentiment_results(results)
Postprocess ==
    /\ pc = "rank"
    /\ comparative_results' = postprocess_sentiment_results(results)
    /\ pc' = "done"
    /\ UNCHANGED <<results, sub_idx, sub_posts, cur, pos, pending,
                   total_sentences_analyzed, call, relevant, result, appended>>

Next ==
    \/ OpenSubreddit
    \/ SubredditFails
    \/ ListingEnds
    \/ \E title \in Titles, selftext \in Selftexts : FetchSubmission(title, selftext)
    \/ \E outcome \in ClassifierOutcomes : AppendOpinion(outcome)
    \/ CommentsFail
    \/ \E bodies \in SeqsUpTo(Bodies, MaxComments) : LoadComments(bodies)
    \/ NextComment
    \/ FinishExtraction
    \/ Postprocess

Spec == Init /\ [][Next]_vars

\* the steps of the loop over the subreddits, up to the hand-over to the reports
Extraction ==
    \/ OpenSubreddit
    \/ SubredditFails
    \/ ListingEnds
    \/ \E title \in Titles, selftext \in Selftexts : FetchSubmission(title, selftext)
    \/ \E outcome \in ClassifierOutcomes : AppendOpinion(outcome)
    \/ CommentsFail
    \/ \E bodies \in SeqsUpTo(Bodies, MaxComments) : LoadComments(bodies)
    \/ NextComment
    \/ FinishExtraction

\* the script is one sequential thread: while the loop has a next step, it takes one
SpecFair == Spec /\ WF_vars(Extraction)

-----------------------------------------------------------------------------
(* The ranking phase on its own: postprocess_sentiment_results applied to a *)
(* store of any number of providers and aspects, each bucket drawn from a   *)
(* family of buckets of up to 60 records.                                   *)

\* <<Positive, Negative, other>> record counts of a bucket
Shapes == {<<0, 0, 0>>, <<12, 0, 8>>, <<11, 0, 9>>, <<20, 0, 5>>, <<40, 0, 10>>, <<24, 30, 6>>}

\* a bucket of the shape: the Positive records, the Negative ones, then Neutral
\* and Error records in turn
MakeBucket(shape, provider, area) ==
    [i \in 1..(shape[1] + shape[2] + shape[3]) |->
        LET sentiment == IF i <= shape[1] THEN "Positive"
                         ELSE IF i <= shape[1] + shape[2] THEN "Negative"
                         ELSE IF (i - shape[1] - shape[2]) % 2 = 1 THEN "Neutral"
                         ELSE "Error"
        IN [sentence |-> Spell[provider] \o <<" ">> \o Spell[Lookup(key_areas, area)[1]],
            sentiment |-> sentiment,
            confidence |-> IF sentiment = "Error" THEN Zero ELSE Rat(9, 10),
            source |-> <<subreddits[1], "Post">>,
            url |-> <<subreddits[1], i>>,
            provider |-> provider,
            aspect |-> area]]

Prefixes(s) == {SubSeq(s, 1, n) : n \in 0..Len(s)}

\* every bucket of the family, built once
Buckets ==
    [shape \in Shapes, provider \in Range(providers), area \in Range(Keys(key_areas)) |->
        MakeBucket(shape, provider, area)]

\* the store of providers ps and aspects areas whose buckets have the shapes f
MakeStore(ps, areas, f) ==
    [i \in 1..Len(ps) |->
        <<ps[i], [k \in 1..Len(areas) |-> <<areas[k], Buckets[f[i, k], ps[i], areas[k]]>>]>>]

InitRank ==
    /\ \E ps \in Prefixes(providers), areas \in Prefixes(Keys(key_areas)) :
           \E f \in [(1..Len(ps)) \X (1..Len(areas)) -> Shapes] :
               results = MakeStore(ps, areas, f)
    /\ pc = "rank"
    /\ sub_idx = Len(subreddits) + 1
    /\ sub_posts = 0
    /\ cur = Idle
    /\ pos = 0
    /\ pending = <<>>
    /\ total_sentences_analyzed = 0
    /\ comparative_results = None
    /\ call = None
    /\ relevant = None
    /\ result = NoAnswer
    /\ appended = <<>>

NextRank == Postprocess

SpecRank == InitRank /\ [][NextRank]_vars

-----------------------------------------------------------------------------
(* The relevance extractor on its own: extract_relevant_sentences applied   *)
(* to every text made of at most MaxFragments fragments, and to no text.    *)

MaxFragments == 6

Fragments == {<<"a", "i">>, <<"m">>, <<" ">>, <<".">>, <<".", " ">>, <<"f", "a", "s", "t">>}

CallTexts == {Concat(q) : q \in SeqsUpTo(Fragments, MaxFragments)} \cup {NoText}

ExtractCalls ==
    [text : CallTexts, provider : {Spell["AI"]},
     keywords : {<<Spell["fast"]>>, <<Spell["fast"], Spell["m"]>>}]

InitExtract ==
    /\ call \in ExtractCalls
    /\ relevant = None
    /\ pc = "call"
    /\ results = <<>>
    /\ sub_idx = 0
    /\ sub_posts = 0
    /\ cur = Idle
    /\ pos = 0
    /\ pending = <<>>
    /\ total_sentences_analyzed = 0
    /\ comparative_results = None
    /\ result = NoAnswer
    /\ appended = <<>>

ExtractCall ==
    /\ pc = "call"
    /\ relevant' = extract_relevant_sentences(call.text, call.provider, call.keywords)
    /\ pc' = "returned"
    /\ UNCHANGED <<results, sub_idx, sub_posts, cur, pos, pending,
                   total_sentences_analyzed, comparative_results, call, result, appended>>

NextExtract == ExtractCall

SpecExtract == InitExtract /\ [][NextExtract]_vars

-----------------------------------------------------------------------------
(* Properties *)

AspectRankings == comparative_results.aspect_rankings

NumProviders == Len(results)

NumAspects == IF results = <<>> THEN 0 ELSE Len(results[1][2])

MinusOne == [n |-> -1, d |-> 1]

\* C1: after ranking, the score of every non-empty bucket has
\* -1 <= sentiment_score <= 1, 0 <= positive_ratio <= 1, 0 <= negative_ratio <= 1
\* and positive_ratio + negative_ratio <= 1, whatever labels were appended to it.
ScoreBounds ==
    pc = "done" =>
        \A k \in 1..Len(AspectRankings) : \A i \in 1..NumProviders :
            LET aspect == AspectRankings[k][1]
                provider == results[i][1]
                score == Lookup(AspectRankings[k][2].provider_scores, provider)
            IN Bucket(results, provider, aspect) # <<>> =>
                   /\ RLeq(MinusOne, score.sentiment_score)
                   /\ RLeq(score.sentiment_score, One)
                   /\ RLeq(Zero, score.positive_ratio)
                   /\ RLeq(score.positive_ratio, One)
                   /\ RLeq(Zero, score.negative_ratio)
                   /\ RLeq(score.negative_ratio, One)
                   /\ RLeq(RAdd(score.positive_ratio, score.negative_ratio), One)

\* a ranked store with a bucket of three records, a Positive, a Negative and an Error among them
ScoreBoundsWitness ==
    /\ pc = "done"
    /\ \E i \in 1..NumProviders : \E k \in 1..NumAspects :
           LET bucket == results[i][2][k][2]
           IN /\ Len(bucket) >= 3
              /\ {"Positive", "Negative", "Error"} \subseteq
                     {bucket[j].sentiment : j \in 1..Len(bucket)}

\* C2: after ranking, every aspect's ranked_providers holds every provider of the
\* store exactly once, each with its own score, in descending order of
\* sentiment_score; best_provider is its first entry and no provider scores higher,
\* worst_provider is its last entry and no provider scores lower.
RankingSortedDescending ==
    pc = "done" =>
        /\ Len(AspectRankings) = NumAspects
        /\ \A k \in 1..Len(AspectRankings) :
               LET data == AspectRankings[k][2]
                   ranked == data.ranked_providers
                   ScoreIn(provider) ==
                       Lookup(data.provider_scores, provider).sentiment_score
               IN /\ Len(ranked) = NumProviders
                  /\ \A i \in 1..NumProviders :
                         Cardinality({j \in 1..Len(ranked) : ranked[j][1] = results[i][1]}) = 1
                  /\ Keys(data.provider_scores) = Keys(results)
                  /\ \A j \in 1..Len(ranked) :
                         ranked[j][2] = Lookup(data.provider_scores, ranked[j][1])
                  /\ \A i, j \in 1..Len(ranked) :
                         i < j => RLeq(ranked[j][2].sentiment_score, ranked[i][2].sentiment_score)
                  /\ data.best_provider = ranked[1][1]
                  /\ data.worst_provider = ranked[Len(ranked)][1]
                  /\ \A i \in 1..NumProviders :
                         /\ RLeq(ScoreIn(results[i][1]), ScoreIn(data.best_provider))
                         /\ RLeq(ScoreIn(data.worst_provider), ScoreIn(results[i][1]))

\* a ranked aspect of three providers with three different scores, the first provider
\* of the store scoring lowest and the last highest
RankingSortedWitness ==
    /\ pc = "done"
    /\ NumProviders = 3
    /\ \E k \in 1..Len(AspectRankings) :
           LET scores == AspectRankings[k][2].provider_scores
           IN /\ RLess(scores[1][2].sentiment_score, scores[2][2].sentiment_score)
              /\ RLess(scores[2][2].sentiment_score, scores[3][2].sentiment_score)
              /\ AspectRankings[k][2].best_provider = results[3][1]
              /\ AspectRankings[k][2].worst_provider = results[1][1]

\* C3: after ranking, two providers with the same sentiment_score in an aspect
\* (two empty buckets included) are ranked in the order of the store's provider list.
StableTieBreak ==
    pc = "done" =>
        \A k \in 1..Len(AspectRankings) :
            LET ranked == AspectRankings[k][2].ranked_providers
            IN \A i, j \in 1..Len(ranked) :
                   (i < j /\ ranked[i][2].sentiment_score = ranked[j][2].sentiment_score)
                       => Get(results, ranked[i][1]) < Get(results, ranked[j][1])

\* a ranked aspect where two providers with different non-empty buckets tie above the
\* first provider of the store, and an aspect where two empty buckets tie
StableTieBreakWitness ==
    /\ pc = "done"
    /\ NumProviders = 3
    /\ \E k \in 1..Len(AspectRankings) :
           LET ranked == AspectRankings[k][2].ranked_providers
           IN /\ ranked[3][1] = results[1][1]
              /\ ranked[1][2].sentiment_score = ranked[2][2].sentiment_score
              /\ ranked[1][2].total_opinions > 0
              /\ ranked[2][2].total_opinions > 0
              /\ ranked[1][2].total_opinions # ranked[2][2].total_opinions
              /\ RLess(ranked[3][2].sentiment_score, ranked[2][2].sentiment_score)
    /\ \E k \in 1..Len(AspectRankings) :
           LET ranked == AspectRankings[k][2].ranked_providers
           IN \E j \in 1..2 : /\ ranked[j][2].total_opinions = 0
                              /\ ranked[j + 1][2].total_opinions = 0

\* the store's own view of a provider: its records over all aspects, and the sum
\* of its sentiment_score over the aspects
OpinionsOf(i) == SumSeq([k \in 1..NumAspects |-> Len(results[i][2][k][2])])

ScoreSumOf(i) ==
    RSum([k \in 1..NumAspects |->
             Lookup(AspectRankings[k][2].provider_scores, results[i][1]).sentiment_score])

OverallOf(i) == Lookup(comparative_results.overall_rankings, results[i][1])

\* C4: after ranking a store with at least one aspect, every provider has one
\* overall score, equal to the mean over all aspects of its sentiment_score times
\* total_opinions / 100 when it has fewer than 100 opinions over all aspects, and
\* equal to that mean when it has 100 or more; 50 opinions and a mean of 0.8 give 0.4.
OverallDampened ==
    (pc = "done" /\ NumAspects > 0) =>
        \A i \in 1..NumProviders :
            /\ Cardinality({j \in 1..Len(comparative_results.overall_rankings) :
                               comparative_results.overall_rankings[j][1] = results[i][1]}) = 1
            /\ OpinionsOf(i) < 100 =>
                   RMul(OverallOf(i), Rat(100 * NumAspects, 1))
                       = RMul(ScoreSumOf(i), Rat(OpinionsOf(i), 1))
            /\ OpinionsOf(i) >= 100 =>
                   RMul(OverallOf(i), Rat(NumAspects, 1)) = ScoreSumOf(i)
            /\ (OpinionsOf(i) = 50 /\ ScoreSumOf(i) = Rat(4 * NumAspects, 5)) =>
                   OverallOf(i) = Rat(2, 5)

\* a ranked store with a provider of 50 opinions and mean 0.8 scoring 0.4, and a
\* provider of more than 100 opinions scoring its plain, non-zero mean
OverallDampenedWitness ==
    /\ pc = "done"
    /\ NumAspects = 2
    /\ \E i \in 1..NumProviders :
           /\ OpinionsOf(i) = 50
           /\ ScoreSumOf(i) = Rat(8, 5)
           /\ OverallOf(i) = Rat(2, 5)
    /\ \E i \in 1..NumProviders :
           /\ OpinionsOf(i) > 100
           /\ ScoreSumOf(i) # Zero
           /\ RMul(OverallOf(i), Rat(2, 1)) = ScoreSumOf(i)

\* the statements about one aspect that name a best and a worst provider
LeadsLines(aspect) ==
    SelectSeq(comparative_results.insights,
              LAMBDA line : line.kind = "leads" /\ line.aspect = aspect)

Gap(k) ==
    LET ranked == AspectRankings[k][2].ranked_providers
    IN RSub(ranked[1][2].sentiment_score, ranked[Len(ranked)][2].sentiment_score)

EmptyInput ==
    \A i \in 1..NumProviders : \A k \in 1..Len(results[i][2]) : results[i][2][k][2] = <<>>

\* C6: after ranking an empty input, the insight list is the one 'no data
\* available' statement.
EmptyInputGivesNoData ==
    (pc = "done" /\ EmptyInput) => comparative_results.insights = <<NoDataInsight>>

\* C9: after ranking, the summary has one row for every (aspect, provider) pair and
\* no other, so aspects times providers rows; a row's Rank is its provider's position
\* in the aspect's ranked_providers, Is_Best holds exactly on the Rank 1 row, the row
\* of best_provider, and Is_Worst exactly on the row whose Rank is the provider count,
\* the row of worst_provider.
SummaryRows ==
    pc = "done" =>
        LET rows == comparative_results.comparative_summary
        IN /\ Len(rows) = NumAspects * NumProviders
           /\ \A k \in 1..Len(AspectRankings) : \A i \in 1..NumProviders :
                  Cardinality({r \in 1..Len(rows) :
                                  /\ rows[r].Aspect = AspectRankings[k][1]
                                  /\ rows[r].Provider = results[i][1]}) = 1
           /\ \A r \in 1..Len(rows) :
                  LET data == Lookup(AspectRankings, rows[r].Aspect)
                  IN /\ rows[r].Rank \in 1..NumProviders
                     /\ data.ranked_providers[rows[r].Rank][1] = rows[r].Provider
                     /\ rows[r].Is_Best <=> rows[r].Rank = 1
                     /\ rows[r].Is_Best <=> rows[r].Provider = data.best_provider
                     /\ rows[r].Is_Worst <=> rows[r].Rank = NumProviders
                     /\ rows[r].Is_Worst <=> rows[r].Provider = data.worst_provider

\* a summary of six rows, three providers in two aspects, where the first provider of
\* the store is on the Is_Worst row of rank 3 in one aspect
SummaryRowsWitness ==
    /\ pc = "done"
    /\ NumProviders = 3
    /\ NumAspects = 2
    /\ Len(comparative_results.comparative_summary) = 6
    /\ \E r \in 1..6 :
           LET row == comparative_results.comparative_summary[r]
           IN row.Is_Worst /\ ~row.Is_Best /\ row.Rank = 3 /\ row.Provider = results[1][1]

\* the number of Positive (Negative) records a score stands for
PositiveCount(score) == RMul(score.positive_ratio, Rat(score.total_opinions, 1))

NegativeCount(score) == RMul(score.negative_ratio, Rat(score.total_opinions, 1))

\* C7: a step that appends an Error or a Neutral record to a bucket raises the
\* bucket's total_opinions by one and leaves positive_ratio * total_opinions and
\* negative_ratio * total_opinions, the counts behind the two ratios, as they were.
ErrorCountsOnlyInTotal ==
    [][\A i \in 1..NumProviders : \A k \in 1..NumAspects :
          LET old == results[i][2][k][2]
              new == results'[i][2][k][2]
              before == provider_score(old)
              after == provider_score(new)
          IN (/\ Len(new) = Len(old) + 1
              /\ SubSeq(new, 1, Len(old)) = old
              /\ new[Len(new)].sentiment \in {"Error", "Neutral"})
                 => /\ after.total_opinions = before.total_opinions + 1
                    /\ PositiveCount(after) = PositiveCount(before)
                    /\ NegativeCount(after) = NegativeCount(before)
                    /\ RLeq(after.positive_ratio, before.positive_ratio)
                    /\ RLeq(after.negative_ratio, before.negative_ratio)]_vars

\* a bucket of a Positive and a Negative record to which an Error record was appended
ErrorCountsWitness ==
    \E i \in 1..NumProviders : \E k \in 1..NumAspects :
        LET bucket == results[i][2][k][2]
        IN /\ Len(bucket) = 3
           /\ bucket[3].sentiment = "Error"
           /\ bucket[3].confidence = Zero
           /\ {bucket[1].sentiment, bucket[2].sentiment} = {"Positive", "Negative"}

\* the relevance of a sentence stated on its words: word occurs in sent, letter case
\* apart, with no word character next to the occurrence on either side
OccursAsWord(word, sent) ==
    \E i \in 1..Len(sent) :
        /\ i + Len(word) - 1 <= Len(sent)
        /\ \A j \in 1..Len(word) : Lower(sent[i + j - 1]) = Lower(word[j])
        /\ ~WordAt(sent, i - 1)
        /\ ~WordAt(sent, i + Len(word))

\* C8: a call of extract_relevant_sentences returns the sentences of the text, in
\* their order, in which the provider name occurs as a whole word and so does one of
\* the keywords, letter case apart; no text and the empty text give the empty list.
ExtractReturnsRelevant ==
    pc = "returned" =>
        LET sentences == sent_tokenize(OrEmpty(call.text))
            IsRelevant(sent) ==
                /\ OccursAsWord(call.provider, sent)
                /\ \E k \in 1..Len(call.keywords) : OccursAsWord(call.keywords[k], sent)
        IN /\ relevant = SelectSeq(sentences, IsRelevant)
           /\ call.text \in {NoText, <<>>} => relevant = <<>>

\* a returned call on a text of two sentences: the first, naming the provider in
\* another letter case and a keyword, is returned; the second, where the provider name
\* is only a part of a longer word, is not
ExtractWitness ==
    /\ pc = "returned"
    /\ Len(sent_tokenize(OrEmpty(call.text))) = 2
    /\ relevant = <<sent_tokenize(call.text)[1]>>
    /\ LET dropped == sent_tokenize(call.text)[2]
       IN /\ contains_substring(call.provider, dropped)
          /\ \E k \in 1..Len(call.keywords) : contains_substring(call.keywords[k], dropped)

\* one bucket got one record at its end and every other bucket is as it was
OneAppend ==
    \E i \in 1..NumProviders : \E k \in 1..NumAspects :
        /\ Len(results'[i][2][k][2]) = Len(results[i][2][k][2]) + 1
        /\ SubSeq(results'[i][2][k][2], 1, Len(results[i][2][k][2])) = results[i][2][k][2]
        /\ \A i2 \in 1..NumProviders : \A k2 \in 1..NumAspects :
               <<i2, k2>> # <<i, k>> => results'[i2][2][k2][2] = results[i2][2][k2][2]

SameBuckets ==
    /\ Keys(results') = Keys(results)
    /\ \A i \in 1..NumProviders : Keys(results'[i][2]) = Keys(results[i][2])

Ranking == pc \in {"rank", "done"}

\* C10: the store starts with an empty bucket for every (provider, aspect) pair;
\* every step that changes it is a step of the extraction loop that appends one record
\* to the end of one bucket; the ranking phase starts only when the last subreddit is
\* done, never goes back to extraction and never changes the store.
StoreOnlyAppended ==
    /\ Keys(results) = providers
    /\ \A i \in 1..NumProviders :
           /\ Keys(results[i][2]) = Keys(key_areas)
           /\ \A k \in 1..NumAspects : results[i][2][k][2] = <<>>
    /\ [][/\ SameBuckets
          /\ results' # results => (pc = "scan" /\ OneAppend)
          /\ (~Ranking /\ Ranking') => (pc = "subreddit" /\ sub_idx > Len(subreddits))
          /\ Ranking => (Ranking' /\ results' = results)]_vars

\* the ranking was done on a store with a bucket of two records from two texts
StoreOnlyAppendedWitness ==
    /\ pc = "done"
    /\ \E i \in 1..NumProviders : \E k \in 1..NumAspects :
           LET bucket == results[i][2][k][2]
           IN Len(bucket) >= 2 /\ bucket[1].url # bucket[2].url

\* sent names the provider and a keyword of the aspect, each as a word of its own
RelevantTo(sent, provider, area) ==
    /\ OccursAsWord(Spell[provider], sent)
    /\ \E k \in 1..Len(Lookup(key_areas, area)) :
           OccursAsWord(Spell[Lookup(key_areas, area)[k]], sent)

\* the sentences of every text Reddit may return, and for each text the
\* <<provider, aspect, sentence>> triples of its sentences, whether the sentence is
\* relevant to the pair
SentencesOf == [text \in AllTexts |-> sent_tokenize(text)]

RelevantPairs ==
    [text \in AllTexts |->
        [triple \in Range(providers) \X Range(Keys(key_areas)) \X Range(SentencesOf[text]) |->
            RelevantTo(triple[3], triple[1], triple[2])]]

\* every sentence Reddit may return, and whether it is relevant to a pair
AllSentences == UNION {Range(SentencesOf[text]) : text \in AllTexts}

RelevanceOf ==
    [triple \in Range(providers) \X Range(Keys(key_areas)) \X AllSentences |->
        RelevantTo(triple[3], triple[1], triple[2])]

TimesIn(seq, x) == Cardinality({n \in 1..Len(seq) : seq[n] = x})

\* the appends made for the current text into the bucket of the pair with the sentence
AppendsOf(provider, area, sent) ==
    Cardinality({n \in 1..Len(appended) :
                    /\ appended[n][1] = provider
                    /\ appended[n][2] = area
                    /\ appended[n][3].sentence = sent})

\* the scan of the current text is over: the script is at the comments of the post
\* scanned, or at the comment after the one scanned
TextScanned == cur.kind # None /\ pc \in {"comments", "comment_loop"}

\* C11: every record of bucket results[p][a] has provider p, aspect a and a sentence
\* relevant to p and to the keywords of a; and once a text is scanned, each of its
\* sentences was appended once to the bucket of every pair it is relevant to and to
\* no other bucket, and nothing else was appended for that text.
RecordsFiledUnderTheirPair ==
    /\ \A i \in 1..NumProviders : \A k \in 1..NumAspects :
           \A n \in 1..Len(results[i][2][k][2]) :
               LET record == results[i][2][k][2][n]
               IN /\ record.provider = results[i][1]
                  /\ record.aspect = results[i][2][k][1]
                  /\ record.sentence \in AllSentences
                  /\ RelevanceOf[<<results[i][1], results[i][2][k][1], record.sentence>>]
    /\ \A n \in 1..Len(appended) :
           /\ appended[n][3].sentence \in Range(SentencesOf[cur.text])
           /\ appended[n][3] \in Range(Bucket(results, appended[n][1], appended[n][2]))
    /\ TextScanned =>
           \A provider \in Range(providers) : \A area \in Range(Keys(key_areas)) :
               \A sent \in Range(SentencesOf[cur.text]) :
                   AppendsOf(provider, area, sent)
                       = IF RelevantPairs[cur.text][<<provider, area, sent>>]
                         THEN TimesIn(SentencesOf[cur.text], sent)
                         ELSE 0

\* a scanned text with a sentence filed under both aspects of one provider and under
\* no aspect of another provider
RecordsFiledWitness ==
    /\ TextScanned
    /\ \E m, n \in 1..Len(appended) :
           /\ appended[m][3].sentence = appended[n][3].sentence
           /\ appended[m][1] = appended[n][1]
           /\ appended[m][2] # appended[n][2]
           /\ \E provider \in Range(providers) : \A area \in Range(Keys(key_areas)) :
                  AppendsOf(provider, area, appended[n][3].sentence) = 0

\* the classifier failed on the sentence just classified
ClassifierFailed == result.label = "raise"

\* the records with sentiment Error and confidence 0.0 in the store
ErrorRecords ==
    {<<i, k, n>> \in (1..NumProviders) \X (1..NumAspects) \X (1..MaxSentences) :
        /\ n <= Len(results[i][2][k][2])
        /\ results[i][2][k][2][n].sentiment = "Error"
        /\ results[i][2][k][2][n].confidence = Zero}

\* the appends the scan of the current text has to make in all
AppendsDue ==
    SumSeq([n \in 1..Len(SentencesOf[cur.text]) |->
               Cardinality({pair \in Range(providers) \X Range(Keys(key_areas)) :
                               RelevantPairs[cur.text][<<pair[1], pair[2],
                                                         SentencesOf[cur.text][n]>>]})])

\* C12: when the classifier fails on a sentence, the step still appends a record,
\* with sentiment Error and confidence 0.0, to the bucket the sentence was extracted
\* for, keeps every record already stored, and goes on with the next sentence of the
\* text if one is left and with the comments or the listing if none is; and from
\* every failure on the run reaches the ranking phase with an Error record in the
\* store.
ClassifierFailureIsLocal ==
    /\ [][(pc = "scan" /\ ClassifierFailed') =>
            LET entry == appended'[Len(appended')]
            IN /\ appended' = Append(appended, entry)
               /\ entry[3].sentiment = "Error"
               /\ entry[3].confidence = Zero
               /\ RelevantTo(entry[3].sentence, entry[1], entry[2])
               /\ OneAppend
               /\ Bucket(results', entry[1], entry[2])
                      = Append(Bucket(results, entry[1], entry[2]), entry[3])
               /\ pc' = IF Len(appended') < AppendsDue THEN "scan"
                        ELSE IF cur.kind = "Post" THEN "comments" ELSE "comment_loop"
               /\ cur' = cur]_vars
    /\ ClassifierFailed ~> (Ranking /\ ErrorRecords # {})

\* a failure on a sentence that is neither the first nor the last of the run: records
\* were stored before it and another sentence of the same text is still to classify
ClassifierFailureWitness ==
    /\ ClassifierFailed
    /\ pc = "scan"
    /\ total_sentences_analyzed >= 2
    /\ Len(appended) < AppendsDue
    /\ appended[Len(appended)][3].sentiment = "Error"

====
